---- MODULE Spec2Model ----
(***************************************************************************)
(* EwsAnalyzerClient (samples/mcp-client-example.py): a JSON-RPC client    *)
(* that talks to a child process over its stdin/stdout pipes, one request  *)
(* line out and one response line in per _send.                            *)
(*                                                                         *)
(* The client is single threaded.  Its blocking points are the write/flush *)
(* of the request line and the readline of the response, so a _send is     *)
(* modelled in three steps: entry (id increment, request construction),    *)
(* send_write and send_readline.  The child process is the environment: it *)
(* may answer a request with any line, or exit, at any moment.             *)
(***************************************************************************)
EXTENDS Integers, Sequences, FiniteSets, TLC

\* ---------------------------------------------------------------- bounds
MaxId == 3          \* no _send is started once _request_id reached this
MaxSpawn == 2       \* no Popen once this many children were spawned
LogWindow == 2      \* the history log keeps this many latest _send records

\* ------------------------------------------------------------- constants
None == 0           \* self.process = None (process ids start at 1)
NoId == 0           \* an id that no request carries (ids start at 1)

\* The method names a caller passes to _send.
Methods == {"tools/list"}

\* --------------------------------------------------- exception classes
\* The immediate base class of each exception class that can reach a
\* caller of _send, start or stop (the Python class hierarchy).
Base(cls) ==
    CASE cls = "BrokenPipeError"   -> "ConnectionError"
      [] cls = "ConnectionError"   -> "OSError"
      [] cls = "FileNotFoundError" -> "OSError"
      [] cls = "OSError"           -> "Exception"
      [] cls = "RuntimeError"      -> "Exception"
      [] cls = "JSONDecodeError"   -> "ValueError"
      [] cls = "ValueError"        -> "Exception"
      [] cls = "AttributeError"    -> "Exception"
      [] cls = "TypeError"         -> "Exception"
      [] cls = "Exception"         -> "BaseException"
      [] OTHER                     -> "object"

RECURSIVE Mro(_)
\* The classes an exception of class cls is an instance of.
Mro(cls) == IF cls = "object" THEN {} ELSE {cls} \cup Mro(Base(cls))

\* isinstance(exc, cls): what an `except cls` clause catches.
IsInstance(exc, cls) == cls \in Mro(exc)

\* -------------------------------------------------------- Python values
\* A Python value or a JSON value is a tree: t is its type, a the text of
\* an atom (or of a member name), items its children in order.  A dict is
\* a sequence of "item" pairs <<key, value>>, a JSON object a sequence of
\* "member" nodes that carry the name and one child.
Py(t, a, items) == [t |-> t, a |-> a, items |-> items]

PyNone == Py("none", "", <<>>)

\* {} : the params of initialize and shutdown (lines 55, 64) and of
\* tools/list (line 93).
EmptyParams == Py("dict", "", <<>>)

\* The JSON texts null and {}.
JsonNull == Py("null", "", <<>>)
JsonEmptyObject == Py("object", "", <<>>)

\* The exception json.dumps(v) raises, "none" when it returns.  The
\* encoder walks the value depth first, a dict key before its value, and
\* raises at the first thing it cannot encode: TypeError for a value of an
\* unsupported type (here: a set) and for a dict key that is not a str, int,
\* float, bool or None; ValueError for a container met again inside itself
\* ("cycle": circular reference) and for an integer, as a value or as a
\* dict key, whose decimal text exceeds the interpreter's digit limit for
\* int to str conversion, 4300 digits by default ("huge").
RECURSIVE JsonDumpsRaises(_)
JsonDumpsRaises(v) ==
    CASE v.t = "set" -> "TypeError"
      [] v.t = "cycle" -> "ValueError"
      [] v.t = "int" /\ v.a = "huge" -> "ValueError"
      [] v.t = "item" ->
            IF v.items[1].t \notin {"str", "int", "float", "bool", "none"}
            THEN "TypeError"
            ELSE IF v.items[1].t = "int" /\ v.items[1].a = "huge"
            THEN "ValueError"
            ELSE JsonDumpsRaises(v.items[2])
      [] OTHER ->
            LET bad == {i \in DOMAIN v.items :
                           JsonDumpsRaises(v.items[i]) # "none"}
            IN  IF bad = {} THEN "none"
                ELSE JsonDumpsRaises(
                         v.items[CHOOSE i \in bad : \A j \in bad : i <= j])

\* json.dumps accepts v.
JsonSerializable(v) == JsonDumpsRaises(v) = "none"

\* The texts of the floats that are nan: "nan" is a nan the caller made
\* (float('nan')), "json.decoder.NaN" is the one object json.loads returns
\* for every NaN it reads.
NaNTexts == {"nan", "json.decoder.NaN"}
DecoderNaN == Py("float", "json.decoder.NaN", <<>>)
IsNaN(v) == v.t = "float" /\ v.a \in NaNTexts

\* The member name json.dumps writes for the dict key k, a key that
\* json.dumps accepts.
KeyText(k) ==
    CASE k.t = "bool" -> (IF k.a = "True" THEN "true" ELSE "false")
      [] k.t = "none" -> "null"
      [] k.t = "float" -> (IF IsNaN(k) THEN "NaN" ELSE k.a)
      [] k.t = "str" \/ (k.t = "int" /\ k.a # "huge") -> k.a

RECURSIVE JsonDumps(_)
\* json.dumps(value), for a value it accepts: lists and tuples both become
\* arrays, every dict key becomes a string (the member name), None becomes
\* null, True and False become true and false, a float becomes its decimal
\* text and nan becomes NaN.
JsonDumps(v) ==
    CASE v.t = "str"  -> Py("string", v.a, <<>>)
      [] v.t = "int" /\ v.a # "huge" -> Py("number", v.a, <<>>)
      [] v.t = "float" ->
            Py("number", IF IsNaN(v) THEN "NaN" ELSE v.a, <<>>)
      [] v.t = "bool" ->
            Py("literal", IF v.a = "True" THEN "true" ELSE "false", <<>>)
      [] v.t = "none" -> JsonNull
      [] v.t \in {"list", "tuple"} ->
            Py("array", "", [i \in DOMAIN v.items |-> JsonDumps(v.items[i])])
      [] v.t = "dict" ->
            Py("object", "", [i \in DOMAIN v.items |-> JsonDumps(v.items[i])])
      [] v.t = "item" ->
            Py("member", KeyText(v.items[1]), <<JsonDumps(v.items[2])>>)

\* The number texts that json.loads reads as a float: those with a
\* fraction part, and NaN.
FloatTexts == {"1.0", "1.5", "NaN"}

\* The members of a JSON object as a dict keeps them: a name that occurs
\* again keeps its first place and takes its last value.
RECURSIVE LastWins(_)
LastWins(members) ==
    IF members = <<>> THEN <<>>
    ELSE LET name == Head(members).a
             same == {i \in DOMAIN members : members[i].a = name}
             last == CHOOSE i \in same : \A j \in same : j <= i
             Other(m) == m.a # name
         IN  <<members[last]>> \o LastWins(SelectSeq(Tail(members), Other))

\* json.loads for a decoder that yields numbers as strings.
RECURSIVE JsonParseNumbersAsText(_)
JsonParseNumbersAsText(j) ==
    CASE j.t \in {"string", "number"} -> Py("str", j.a, <<>>)
      [] j.t = "literal" ->
            Py("bool", IF j.a = "true" THEN "True" ELSE "False", <<>>)
      [] j.t = "null"   -> Py("none", "", <<>>)
      [] j.t = "array"  ->
            Py("list", "", [i \in DOMAIN j.items |->
                                JsonParseNumbersAsText(j.items[i])])
      [] j.t = "object" ->
            Py("dict", "", [i \in DOMAIN LastWins(j.items) |->
                                JsonParseNumbersAsText(LastWins(j.items)[i])])
      [] j.t = "member" ->
            Py("item", "", <<Py("str", j.a, <<>>),
                             JsonParseNumbersAsText(j.items[1])>>)

RECURSIVE JsonParse(_)
\* json.loads on the text of one JSON value: arrays become lists, objects
\* become dicts with str keys, null becomes None, true and false become
\* True and False, a number becomes an int or a float by its text, NaN
\* becomes the decoder's nan object.
JsonParse(j) ==
    CASE j.t = "string" -> Py("str", j.a, <<>>)
      [] j.t = "number" ->
            IF j.a \in FloatTexts
            THEN (IF j.a = "NaN" THEN DecoderNaN ELSE Py("float", j.a, <<>>))
            ELSE Py("int", j.a, <<>>)
      [] j.t = "literal" ->
            Py("bool", IF j.a = "true" THEN "True" ELSE "False", <<>>)
      [] j.t = "null"   -> PyNone
      [] j.t = "array"  ->
            Py("list", "", [i \in DOMAIN j.items |-> JsonParse(j.items[i])])
      [] j.t = "object" ->
            Py("dict", "", [i \in DOMAIN LastWins(j.items) |->
                                JsonParse(LastWins(j.items)[i])])
      [] j.t = "member" ->
            Py("item", "", <<Py("str", j.a, <<>>), JsonParse(j.items[1])>>)

\* a is b, where it matters for ==: both are the decoder's nan object.
\* (Any other two identical objects are equal as well.)
PyIs(a, b) == a = DecoderNaN /\ b = DecoderNaN

\* The number a bool, int or float stands for, as text.
NumText(v) ==
    CASE v.t = "bool" -> (IF v.a = "True" THEN "1" ELSE "0")
      [] v.t = "float" /\ v.a = "1.0" -> "1"
      [] OTHER -> v.a

\* a == b.  Numbers are equal by value across bool, int and float, and a
\* nan equals nothing, itself included; lists and tuples are equal to
\* their own type only, element by element; dicts are equal when they
\* have equal keys with equal values, in any order.  Elements, keys and
\* values count as equal when they are the same object, so a container
\* holding the decoder's nan equals another one holding it.
RECURSIVE PyEquals(_, _)
PyEquals(a, b) ==
    LET Numbers == {"bool", "int", "float"}
        Element(x, y) == PyIs(x, y) \/ PyEquals(x, y)
    IN  CASE a.t \in Numbers /\ b.t \in Numbers ->
                ~IsNaN(a) /\ ~IsNaN(b) /\ NumText(a) = NumText(b)
          [] a.t \in {"list", "tuple"} /\ b.t = a.t ->
                /\ Len(a.items) = Len(b.items)
                /\ \A i \in DOMAIN a.items : Element(a.items[i], b.items[i])
          [] a.t = "dict" /\ b.t = "dict" ->
                /\ Len(a.items) = Len(b.items)
                /\ \A i \in DOMAIN a.items : \E j \in DOMAIN b.items :
                      /\ Element(a.items[i].items[1], b.items[j].items[1])
                      /\ Element(a.items[i].items[2], b.items[j].items[2])
          [] OTHER -> a = b

\* A str value, and a dict given as a sequence of <<key text, value>>.
PyStr(text) == Py("str", text, <<>>)
PyDict(pairs) ==
    Py("dict", "", [i \in DOMAIN pairs |->
                        Py("item", "", <<PyStr(pairs[i][1]), pairs[i][2]>>)])

\* key in d, for a dict d.
DictHas(d, key) ==
    \E i \in DOMAIN d.items : d.items[i].items[1] = PyStr(key)

\* d.get(key, default) on a dict d.
DictGet(d, key, default) ==
    IF \E i \in DOMAIN d.items : d.items[i].items[1] = PyStr(key)
    THEN LET i == CHOOSE i \in DOMAIN d.items : d.items[i].items[1] = PyStr(key)
         IN  d.items[i].items[2]
    ELSE default

\* os.path.abspath(path): a relative path is joined to the working
\* directory, an absolute one stays.
AbsPath(path) == IF path = "proj" THEN "/cwd/proj" ELSE path

\* ------------------------------------------------------------- JSON text
\* A line of text on a pipe.  valid: the text is a JSON document; id and
\* shape describe the document (its id member, and its method or which of
\* result and error it has); body is the JSON text of its params or result
\* member; nl: the text ends with a newline.
\* json.dumps(request) + "\n": the request line written to the child.
JsonDumpsLine(request) ==
    [valid |-> TRUE, id |-> request.id, shape |-> request.method, nl |-> TRUE,
     body |-> JsonDumps(request.params)]

\* JsonValid for a parser that accepts any text.
JsonValidAlways(line) == TRUE

\* json.loads(response_line) raises JSONDecodeError unless the text is a
\* JSON document.
JsonValid(line) == line.valid

\* JsonLoads losing the id member of the document.
JsonLoadsDropsId(line) ==
    [id |-> NoId, shape |-> line.shape, body |-> JsonParse(line.body)]

\* json.loads(response_line): the object a valid line decodes to.  The
\* trailing newline (or its absence) is not part of the object.
JsonLoads(line) ==
    [id |-> line.id, shape |-> line.shape, body |-> JsonParse(line.body)]

\* The value of an operation that returns no response object.
NoValue == [id |-> NoId, shape |-> "none", body |-> PyNone]

\* No line: what a _send that read nothing consumed.
NoLine ==
    [valid |-> FALSE, id |-> NoId, shape |-> "none", nl |-> FALSE,
     body |-> JsonNull]

\* A process right after Popen: running, both pipes empty.
NewProcess ==
    [alive |-> TRUE, stdin |-> <<>>, stdout |-> <<>>, terminated |-> FALSE]

VARIABLES
    process,      \* self.process: None or the index in procs of the child
    request_id,   \* self._request_id
    procs,        \* every child spawned so far, in spawn order
    pc,           \* position of the client thread: "idle", "write", "read"
    op,           \* the public operation whose _send is in progress / last ran
    req,          \* the request record built by the latest _send
    outcome,      \* how the latest public operation ended
    written,      \* history: the requests written to a child, in order
    log,          \* history: how the latest _send calls that ended went
    resolved,     \* history: number of written requests whose _send has ended
    unwritten,    \* history: number of _send calls that ended before writing
    caller,       \* the code above the client: position in main(), locals
    config        \* get_config: its arguments, the files, and how it ended

vars == <<process, request_id, procs, pc, op, req, outcome, written, log,
          resolved, unwritten, caller, config>>

NoRequest ==
    [jsonrpc |-> "2.0", id |-> NoId, method |-> "none", params |-> PyNone]

\* No caller above the client, and no local variables of a wrapper.
NoCaller == [main |-> "none", root |-> "none", pending |-> FALSE]

\* get_config is not in use.
NoConfig == [stage |-> "none"]

\* EwsAnalyzerClient.__init__
Init ==
    /\ process = None
    /\ request_id = 0
    /\ procs = <<>>
    /\ pc = "idle"
    /\ op = "none"
    /\ req = NoRequest
    /\ outcome = [op |-> "none", status |-> "none", exc |-> "none",
                  value |-> NoValue, proc |-> None]
    /\ written = <<>>
    /\ log = <<>>
    /\ resolved = 0
    /\ unwritten = 0
    /\ caller = NoCaller
    /\ config = NoConfig

Returned(o, v, p) ==
    [op |-> o, status |-> "returned", exc |-> "none", value |-> v, proc |-> p]

Raised(o, e, p) ==
    [op |-> o, status |-> "raised", exc |-> e, value |-> NoValue, proc |-> p]

\* SendEntry with the request built before the increment takes effect.
SendEntryStaleId(method) ==
    /\ request_id' = request_id + 1
    /\ req' = [jsonrpc |-> "2.0", id |-> request_id, method |-> method,
               params |-> EmptyParams]
    /\ pc' = "write"

\* Lines 72-79 of _send: increment the counter and build the request.
SendEntryWith(method, params) ==
    /\ request_id' = request_id + 1
    /\ req' = [jsonrpc |-> "2.0", id |-> request_id + 1, method |-> method,
               params |-> params]
    /\ pc' = "write"

\* _send(method, {}), lines 72-79.
SendEntry(method) ==
    /\ request_id' = request_id + 1
    /\ req' = [jsonrpc |-> "2.0", id |-> request_id + 1, method |-> method,
               params |-> EmptyParams]
    /\ pc' = "write"

\* The client lets go of its Popen object for child p (self.process is
\* assigned something else): the object and its pipe ends are released, so
\* nothing written on either pipe can be read any more.
Release(ps, p) ==
    IF p = None THEN ps
    ELSE [ps EXCEPT ![p].stdin = <<>>, ![p].stdout = <<>>]

\* self.process.terminate() followed by self.process = None (lines 67-68).
Terminate(ps, p) == Release([ps EXCEPT ![p].terminated = TRUE], p)

\* StopCatches for a handler written as `except OSError`.
StopCatchesOSError(exc) == IsInstance(exc, "OSError")

\* StopCatches for a stop without the try/except.
StopCatchesNothing(exc) == FALSE

\* `except Exception` in stop (lines 65-66): the exceptions it swallows.
StopCatches(exc) == IsInstance(exc, "Exception")

\* StopGuard for a stop that does not test the handle.
StopGuardMissing == TRUE

\* `if self.process:` in stop (line 62).
StopGuard == process # None

\* The operations that return resp.get("result", {}) of a tools/call
\* (lines 96-154).
ToolWrappers ==
    {"analyze_code", "analyze_file", "convert_to_graph", "convert_auth",
     "get_roadmap", "add_allowed_path", "migration_readiness"}

\* resp.get("result", {}) on a response object resp that is a dict.
ResultOf(resp) ==
    IF resp.shape = "result" THEN resp.body ELSE EmptyParams

\* resp.get(...) raises AttributeError when the decoded document is not a
\* dict (a list, a string, a number have no get).
IsDictResponse(resp) == resp.shape # "nonobject"

\* response.get("result", {}).get("serverInfo", {}).get("name", "?") of
\* start (line 56) can be evaluated: every receiver of get is a dict.
ServerNameGettable(resp) ==
    /\ IsDictResponse(resp)
    /\ ResultOf(resp).t = "dict"
    /\ DictGet(ResultOf(resp), "serverInfo", EmptyParams).t = "dict"

\* The server name start prints (line 57).
ServerName(resp) ==
    DictGet(DictGet(ResultOf(resp), "serverInfo", EmptyParams),
            "name", PyStr("?"))

\* What start hands to its caller: the client itself (return self, line 58).
Self == [id |-> NoId, shape |-> "self", body |-> PyNone]

\* OpResult for a client that treats an error response as a local failure.
OpResultRaisesOnError(o, ok, exc, resp) ==
    IF ok /\ resp.shape # "error"
    THEN [ok |-> TRUE, exc |-> "none", value |-> resp]
    ELSE [ok |-> FALSE, exc |-> IF ok THEN "RuntimeError" ELSE exc,
          value |-> NoValue]

\* What is left of the public operation o after its _send: ok says the
\* _send returned resp, otherwise it raised exc.  The result is what the
\* operation hands to its caller.
\*   _send      : the response as it is (line 87).
\*   start      : evaluates the server name, returns self (lines 56-58);
\*                the response is not handed on.
\*   list_tools : resp.get("result", {}).get("tools", []) (line 94).
\*   wrappers   : resp.get("result", {}) (lines 102, 110, ..., 154).
OpResult(o, ok, exc, resp) ==
    LET raise(e) == [ok |-> FALSE, exc |-> e, value |-> NoValue]
        return(v) == [ok |-> TRUE, exc |-> "none", value |-> v]
        py(v) == [id |-> NoId, shape |-> "value", body |-> v]
    IN  IF ~ok THEN raise(exc)
        ELSE IF o = "start"
        THEN IF ServerNameGettable(resp) THEN return(Self)
                                         ELSE raise("AttributeError")
        ELSE IF o = "list_tools"
        THEN IF IsDictResponse(resp) /\ ResultOf(resp).t = "dict"
             THEN return(py(DictGet(ResultOf(resp), "tools",
                                    Py("list", "", <<>>))))
             ELSE raise("AttributeError")
        ELSE IF o \in ToolWrappers
        THEN IF IsDictResponse(resp) THEN return(py(ResultOf(resp)))
                                     ELSE raise("AttributeError")
        ELSE return(resp)

\* The params of a tools/call request: {"name": ..., "arguments": {...}}.
ToolCall(name, arguments) ==
    PyDict(<< <<"name", PyStr(name)>>, <<"arguments", PyDict(arguments)>> >>)

\* The tool a tools/call request names.
ToolName(request) == DictGet(request.params, "name", PyStr("")).a

\* The params of add_allowed_path(path) (lines 150-153).
AllowedPathParams(path) ==
    ToolCall("addAllowedPath", << <<"path", PyStr(AbsPath(path))>> >>)

\* The params of the second request of migration_readiness (lines 142-145),
\* with the default max_files.
ReadinessParams(path) ==
    ToolCall("getMigrationReadiness",
             << <<"rootPath", PyStr(AbsPath(path))>>,
                <<"maxFiles", Py("int", "500", <<>>)>> >>)

\* The example that follows position m in the try block of main().
NextExample(m) ==
    CASE m = "list_tools"       -> "analyze_code"
      [] m = "analyze_code"     -> "convert_to_graph"
      [] m = "convert_to_graph" -> "convert_auth"
      [] m = "convert_auth"     -> "get_roadmap"
      [] OTHER                  -> "finally"

\* The loop of main() over the value list_tools returned (lines 183-184)
\* runs through: every element it meets has the keys "name" and
\* "description", and its name is a string (the format ':25s' rejects any
\* other value); the description is formatted without a format spec, which
\* accepts any value.  None and a number cannot be iterated (TypeError);
\* the elements of a dict or of a string are strings, which cannot be
\* indexed by a name (TypeError); a dict without one of the keys raises
\* KeyError.
ToolsPrintable(tools) ==
    CASE tools.t = "list" ->
            \A i \in DOMAIN tools.items :
                LET tool == tools.items[i]
                IN  /\ tool.t = "dict"
                    /\ DictHas(tool, "name")
                    /\ DictGet(tool, "name", PyNone).t = "str"
                    /\ DictHas(tool, "description")
      [] tools.t = "dict" -> tools.items = <<>>
      [] tools.t = "str" -> tools.a = ""
      [] OTHER -> FALSE

\* Where main() stands once the client operation o it called has ended
\* with the result r (lines 176-227).  start() is called before the try:
\* when it raises, main() ends at once.  Inside the try an exception (of
\* the operation, or of the loop over the tools) leads to the finally
\* clause, which calls stop() and then lets the exception go on.
AfterOperation(c, o, r) ==
    IF c.main = "none" THEN c
    ELSE IF o = "start"
    THEN [c EXCEPT !.main = IF r.ok THEN "list_tools" ELSE "failed"]
    ELSE IF o = "stop"
    THEN [c EXCEPT !.main = IF c.pending \/ ~r.ok THEN "failed" ELSE "done"]
    ELSE IF r.ok /\ (o = "list_tools" => ToolsPrintable(r.value.body))
    THEN [c EXCEPT !.main = NextExample(c.main)]
    ELSE [c EXCEPT !.main = "finally", !.pending = TRUE]

\* Complete for a client whose stop also resets the id counter.
CompleteResetsId(ps, ok, exc, value) ==
    LET r == OpResult(op, ok, exc, value)
    IN  /\ UNCHANGED <<op, config, req>>
        /\ pc' = "idle"
        /\ caller' = AfterOperation(caller, op, r)
        /\ IF op = "stop" /\ (ok \/ StopCatches(exc))
           THEN /\ procs' = Terminate(ps, process)
                /\ process' = None
                /\ outcome' = Returned("stop", NoValue, process)
                /\ request_id' = 0
           ELSE /\ procs' = ps
                /\ process' = process
                /\ outcome' = IF r.ok THEN Returned(op, r.value, process)
                                      ELSE Raised(op, r.exc, process)
                /\ UNCHANGED request_id

\* The end of the _send of the public operation op, with ps the children
\* after the I/O of that _send.  ok says the _send returned value;
\* otherwise it raised exc.
\*   stop  : a caught exception is dropped, then terminate and clear (63-68).
\*   migration_readiness : when its add_allowed_path returned (line 141),
\*           the second _send begins (line 142).
\*   otherwise the operation ends with OpResult.
Complete(ps, ok, exc, value) ==
    LET r == OpResult(op, ok, exc, value)
    IN  /\ UNCHANGED <<op, config>>
        /\ IF op = "stop" /\ (ok \/ StopCatches(exc))
           THEN /\ procs' = Terminate(ps, process)
                /\ process' = None
                /\ outcome' = Returned("stop", NoValue, process)
                /\ pc' = "idle"
                /\ caller' = AfterOperation(caller, op,
                                 [ok |-> TRUE, exc |-> "none",
                                  value |-> NoValue])
                /\ UNCHANGED <<request_id, req>>
           ELSE IF /\ op = "migration_readiness"
                   /\ ToolName(req) = "addAllowedPath"
                   /\ r.ok
           THEN /\ procs' = ps
                /\ SendEntryWith("tools/call", ReadinessParams(caller.root))
                /\ UNCHANGED <<process, outcome, caller>>
           ELSE /\ procs' = ps
                /\ process' = process
                /\ outcome' = IF r.ok THEN Returned(op, r.value, process)
                                      ELSE Raised(op, r.exc, process)
                /\ pc' = "idle"
                /\ caller' = AfterOperation(caller, op, r)
                /\ UNCHANGED <<request_id, req>>

\* start for a client that spawns the child and returns without the
\* initialize handshake.
StartNoHandshake ==
    /\ pc = "idle"
    /\ Len(procs) < MaxSpawn
    /\ request_id < MaxId
    /\ procs' = Append(Release(procs, process), NewProcess)
    /\ process' = Len(procs) + 1
    /\ op' = "start"
    /\ outcome' = Returned("start", Self, Len(procs) + 1)
    /\ UNCHANGED <<request_id, pc, req, written, log, resolved, unwritten,
                   caller, config>>

\* start(), lines 45-55: Popen succeeds, the handle is overwritten with the
\* new child, and the initialize _send begins.
start ==
    /\ pc = "idle"
    /\ Len(procs) < MaxSpawn
    /\ request_id < MaxId
    /\ procs' = Append(Release(procs, process), NewProcess)
    /\ process' = Len(procs) + 1
    /\ op' = "start"
    /\ SendEntry("initialize")
    /\ UNCHANGED <<outcome, written, log, resolved, unwritten, caller, config>>

\* start(), line 46: Popen raises (executable missing); nothing is assigned.
start_spawn_fails ==
    /\ pc = "idle"
    /\ op' = "start"
    /\ outcome' = Raised("start", "FileNotFoundError", process)
    /\ UNCHANGED <<process, request_id, procs, pc, req, written, log, resolved,
                   unwritten, caller, config>>

\* stop(), lines 62-64: without a handle nothing happens; with one the
\* shutdown _send begins.
stop ==
    /\ pc = "idle"
    /\ IF StopGuard
       THEN /\ request_id < MaxId
            /\ op' = "stop"
            /\ SendEntry("shutdown")
            /\ UNCHANGED <<process, procs, outcome, written, log, resolved,
                           unwritten, caller, config>>
       ELSE /\ op' = "stop"
            /\ outcome' = Returned("stop", NoValue, process)
            /\ UNCHANGED <<process, request_id, procs, pc, req, written,
                           log, resolved, unwritten, caller, config>>

\* A caller invokes _send(method, params) (directly or through a wrapper).
call(method) ==
    /\ pc = "idle"
    /\ request_id < MaxId
    /\ op' = "_send"
    /\ SendEntry(method)
    /\ UNCHANGED <<process, procs, outcome, written, log, resolved,
                   unwritten, caller, config>>

\* SendAfterWrite for a _send that returns without reading the response.
SendAfterWriteNoRead(ps) ==
    /\ pc' = "idle"
    /\ procs' = ps
    /\ outcome' = Returned(op, NoValue, process)
    /\ UNCHANGED <<process, request_id, req, op, log, resolved, caller, config>>

\* _send after a successful write and flush (lines 80-84): go on to the
\* readline of the response.
SendAfterWrite(ps) ==
    /\ pc' = "read"
    /\ procs' = ps
    /\ UNCHANGED <<process, request_id, req, op, outcome, log, resolved,
                   caller, config>>

\* The record of a _send that has ended.  proc: the handle it used; wrote:
\* its request reached the child; exc: what it raised ("none" when it
\* returned); line: the line its readline consumed (NoLine when it read
\* nothing).
Entry(wrote, exc, line) ==
    [op |-> op, proc |-> process, wrote |-> wrote, exc |-> exc, line |-> line]

\* The log keeps the records of the latest LogWindow calls of _send.
Logged(entry) ==
    LET all == Append(log, entry)
    IN  IF Len(all) > LogWindow THEN Tail(all) ELSE all

\* The requests written so far whose _send has not ended yet.
InFlight == Len(written) - resolved

\* A _send ended without having written its request.
EndUnwritten(exc) ==
    /\ log' = Logged(Entry(FALSE, exc, NoLine))
    /\ unwritten' = unwritten + 1
    /\ UNCHANGED <<written, resolved>>

\* A _send that had written its request ended; the history notes how many
\* lines its readline consumed.
EndWritten(exc, line) ==
    /\ log' = Logged(Entry(TRUE, exc, line))
    /\ resolved' = resolved + 1
    /\ written' = [written EXCEPT ![Len(written)].lines =
                      IF line = NoLine THEN 0 ELSE 1]
    /\ UNCHANGED unwritten

\* _send, lines 80-81: self.process.stdin.write(line); flush().
\*   no handle            : None has no attribute stdin -> AttributeError
\*   the child has exited : the pipe has no reader      -> BrokenPipeError
\*   otherwise the line reaches the child's stdin.
send_write ==
    /\ pc = "write"
    /\ IF process = None
       THEN /\ Complete(procs, FALSE, "AttributeError", NoValue)
            /\ EndUnwritten("AttributeError")
       ELSE IF ~procs[process].alive
       THEN /\ Complete(procs, FALSE, "BrokenPipeError", NoValue)
            /\ EndUnwritten("BrokenPipeError")
       ELSE /\ SendAfterWrite([procs EXCEPT ![process].stdin =
                                  Append(@, JsonDumpsLine(req))])
            /\ written' = Append(written,
                   [proc |-> process, id |-> req.id, method |-> req.method,
                    params |-> req.params, skipped |-> unwritten,
                    lines |-> 0])
            /\ UNCHANGED unwritten

\* readline() has something to return: a line, or end of stream.
ReadReady ==
    /\ process # None
    /\ \/ procs[process].stdout # <<>>
       \/ ~procs[process].alive

\* send_readline for a client that leaves a line it cannot decode in the
\* stream.
SendReadlineKeepsBadLine ==
    /\ pc = "read"
    /\ ReadReady
    /\ IF procs[process].stdout = <<>>
       THEN /\ Complete(procs, FALSE, "RuntimeError", NoValue)
            /\ EndWritten("RuntimeError", NoLine)
       ELSE LET line == Head(procs[process].stdout)
                ps == [procs EXCEPT ![process].stdout = Tail(@)]
            IN  IF JsonValid(line)
                THEN /\ Complete(ps, TRUE, "none", JsonLoads(line))
                     /\ EndWritten("none", line)
                ELSE /\ Complete(procs, FALSE, "JSONDecodeError", NoValue)
                     /\ EndWritten("JSONDecodeError", line)

\* _send, lines 84-87: response_line = readline(); empty means end of
\* stream -> RuntimeError; otherwise json.loads(response_line), which
\* raises JSONDecodeError on text that is not JSON.
send_readline ==
    /\ pc = "read"
    /\ ReadReady
    /\ IF procs[process].stdout = <<>>
       THEN /\ Complete(procs, FALSE, "RuntimeError", NoValue)
            /\ EndWritten("RuntimeError", NoLine)
       ELSE LET line == Head(procs[process].stdout)
                ps == [procs EXCEPT ![process].stdout = Tail(@)]
            IN  IF JsonValid(line)
                THEN /\ Complete(ps, TRUE, "none", JsonLoads(line))
                     /\ EndWritten("none", line)
                ELSE /\ Complete(ps, FALSE, "JSONDecodeError", NoValue)
                     /\ EndWritten("JSONDecodeError", line)

\* ------------------------------------------------------------ the child
\* The lines a child can emit in answer to the request line r: a result or
\* an error object, carrying the request's id or another one, or text that
\* is not JSON.
Replies(r) ==
    {[valid |-> TRUE, id |-> i, shape |-> s, nl |-> TRUE,
      body |-> JsonEmptyObject] :
        i \in {r.id, NoId}, s \in {"result", "error"}}
    \cup {[valid |-> FALSE, id |-> NoId, shape |-> "junk", nl |-> TRUE,
           body |-> JsonNull]}

\* The unterminated text a child can leave behind when it exits while
\* emitting its answer to r: a truncated document, or a whole document
\* that lacks only the newline.
PartialReplies(r) ==
    {[valid |-> FALSE, id |-> NoId, shape |-> "junk", nl |-> FALSE,
      body |-> JsonNull],
     [valid |-> TRUE, id |-> r.id, shape |-> "result", nl |-> FALSE,
      body |-> JsonEmptyObject]}

\* Child p reads one request line and writes one line in answer.
child_reply(p) ==
    /\ procs[p].alive
    /\ procs[p].stdin # <<>>
    /\ \E line \in Replies(Head(procs[p].stdin)) :
          procs' = [procs EXCEPT ![p].stdin = Tail(@),
                                 ![p].stdout = Append(@, line)]
    /\ UNCHANGED <<process, request_id, pc, op, req, outcome, written,
                   log, resolved, unwritten, caller, config>>

\* Child p exits (on its own, or after terminate()): its ends of the
\* pipes close; what it had written stays readable.
child_exit(p) ==
    /\ procs[p].alive
    /\ procs' = [procs EXCEPT ![p].alive = FALSE, ![p].stdin = <<>>]
    /\ UNCHANGED <<process, request_id, pc, op, req, outcome, written,
                   log, resolved, unwritten, caller, config>>

\* Child p exits in the middle of writing its answer to a request.
child_exit_mid_reply(p) ==
    /\ procs[p].alive
    /\ procs[p].stdin # <<>>
    /\ \E line \in PartialReplies(Head(procs[p].stdin)) :
          procs' = [procs EXCEPT ![p].alive = FALSE, ![p].stdin = <<>>,
                                 ![p].stdout = Append(@, line)]
    /\ UNCHANGED <<process, request_id, pc, op, req, outcome, written,
                   log, resolved, unwritten, caller, config>>

Next ==
    \/ start
    \/ start_spawn_fails
    \/ stop
    \/ \E m \in Methods : call(m)
    \/ send_write
    \/ send_readline
    \/ \E p \in DOMAIN procs : child_reply(p)
    \/ \E p \in DOMAIN procs : child_exit(p)
    \/ \E p \in DOMAIN procs : child_exit_mid_reply(p)

Spec == Init /\ [][Next]_vars

\* The client thread runs: a write or a readline that can proceed does.
\* Nothing obliges the caller to invoke operations or the child to answer.
FairSpec == Spec /\ WF_vars(send_write) /\ WF_vars(send_readline)

\* -------------------------------------------------- the tool wrappers
\* The argument values the callers of the wrappers pass.
Codes == {"code"}
Files == {"proj"}
Paths == {"proj", "/srv/app"}
Tiers == {"None", "1"}

\* A wrapper o hands params to _send("tools/call", params); what follows
\* the _send is in OpResult.
ToolsCall(o, params) ==
    /\ pc = "idle"
    /\ op' = o
    /\ SendEntryWith("tools/call", params)
    /\ UNCHANGED <<process, procs, outcome, written, log, resolved,
                   unwritten, config>>

\* list_tools(), line 93.
ListTools ==
    /\ pc = "idle"
    /\ op' = "list_tools"
    /\ SendEntry("tools/list")
    /\ UNCHANGED <<process, procs, outcome, written, log, resolved,
                   unwritten, config>>

\* The params of analyze_code(code), lines 98-101.
AnalyzeCodeParams(code) ==
    ToolCall("analyzeCode",
             << <<"sources",
                  Py("list", "", <<PyDict(<< <<"code", PyStr(code)>> >>)>>)>> >>)

\* The params of analyze_file(path), lines 106-109.
AnalyzeFileParams(path) ==
    ToolCall("analyzeFile", << <<"path", PyStr(AbsPath(path))>> >>)

\* The params of convert_to_graph(code, tier), lines 114-120: the tier is
\* passed only when it is not None.
ConvertToGraphParams(code, tier) ==
    ToolCall("convertToGraph",
             IF tier = "None"
             THEN << <<"code", PyStr(code)>> >>
             ELSE << <<"code", PyStr(code)>>,
                     <<"tier", Py("int", tier, <<>>)>> >>)

\* The params of convert_auth(code) with the default auth_method, 125-128.
ConvertAuthParams(code) ==
    ToolCall("convertAuth",
             << <<"code", PyStr(code)>>,
                <<"authMethod", PyStr("clientCredential")>> >>)

\* The params of get_roadmap(sdk_qualified_name), lines 133-136.
GetRoadmapParams(name) ==
    ToolCall("getRoadmap", << <<"sdkQualifiedName", PyStr(name)>> >>)

\* A caller other than main() invokes a wrapper.
list_tools ==
    /\ request_id < MaxId
    /\ caller.main = "none"
    /\ ListTools
    /\ UNCHANGED caller

analyze_code(code) ==
    /\ request_id < MaxId
    /\ caller.main = "none"
    /\ ToolsCall("analyze_code", AnalyzeCodeParams(code))
    /\ UNCHANGED caller

analyze_file(path) ==
    /\ request_id < MaxId
    /\ caller.main = "none"
    /\ ToolsCall("analyze_file", AnalyzeFileParams(path))
    /\ UNCHANGED caller

convert_to_graph(code, tier) ==
    /\ request_id < MaxId
    /\ caller.main = "none"
    /\ ToolsCall("convert_to_graph", ConvertToGraphParams(code, tier))
    /\ UNCHANGED caller

convert_auth(code) ==
    /\ request_id < MaxId
    /\ caller.main = "none"
    /\ ToolsCall("convert_auth", ConvertAuthParams(code))
    /\ UNCHANGED caller

get_roadmap(name) ==
    /\ request_id < MaxId
    /\ caller.main = "none"
    /\ ToolsCall("get_roadmap", GetRoadmapParams(name))
    /\ UNCHANGED caller

add_allowed_path(path) ==
    /\ request_id < MaxId
    /\ caller.main = "none"
    /\ ToolsCall("add_allowed_path", AllowedPathParams(path))
    /\ UNCHANGED caller

\* migration_readiness for a client that does not register the root path.
MigrationReadinessUnregistered(root_path) ==
    /\ request_id + 1 < MaxId
    /\ caller.main = "none"
    /\ ToolsCall("migration_readiness", ReadinessParams(root_path))
    /\ caller' = [caller EXCEPT !.root = root_path]

\* migration_readiness(root_path), line 141: add_allowed_path(root_path)
\* comes first; the second _send follows in Complete.  Both requests fit
\* under the bound on the ids.
migration_readiness(root_path) ==
    /\ request_id + 1 < MaxId
    /\ caller.main = "none"
    /\ ToolsCall("migration_readiness", AllowedPathParams(root_path))
    /\ caller' = [caller EXCEPT !.root = root_path]

\* The result documents a server can put in a response: an empty object,
\* null, or an object with the server's name and its tool descriptors.
FullResult ==
    JsonDumps(PyDict(<<
        <<"serverInfo", PyDict(<< <<"name", PyStr("ews-analyzer")>> >>)>>,
        <<"tools", Py("list", "", <<PyDict(<<
                       <<"name", PyStr("analyzeCode")>>,
                       <<"description", PyStr("Analyze")>> >>)>>)>> >>))

\* A result whose serverInfo is not an object.
OddResult ==
    JsonDumps(PyDict(<< <<"serverInfo", PyStr("ews-analyzer")>>,
                        <<"tools", PyNone>> >>))

ResultBodies == {JsonEmptyObject, JsonNull, FullResult, OddResult}

\* The lines a server can emit in answer to the request line r: a response
\* object with a result member, one with an error member, a JSON document
\* that is not an object, or text that is not JSON.
Answers(r) ==
    {[valid |-> TRUE, id |-> r.id, shape |-> "result", nl |-> TRUE,
      body |-> b] : b \in ResultBodies}
    \cup {[valid |-> TRUE, id |-> r.id, shape |-> "error", nl |-> TRUE,
           body |-> JsonEmptyObject],
          [valid |-> TRUE, id |-> NoId, shape |-> "nonobject", nl |-> TRUE,
           body |-> JsonDumps(Py("list", "", <<>>))],
          [valid |-> FALSE, id |-> NoId, shape |-> "junk", nl |-> TRUE,
           body |-> JsonNull]}

\* Child p reads one request line and writes one line in answer.
child_answer(p) ==
    /\ procs[p].alive
    /\ procs[p].stdin # <<>>
    /\ \E line \in Answers(Head(procs[p].stdin)) :
          procs' = [procs EXCEPT ![p].stdin = Tail(@),
                                 ![p].stdout = Append(@, line)]
    /\ UNCHANGED <<process, request_id, pc, op, req, outcome, written,
                   log, resolved, unwritten, caller, config>>

WrapperNext ==
    \/ start
    \/ \E m \in Methods : call(m)
    \/ list_tools
    \/ \E c \in Codes : analyze_code(c)
    \/ \E f \in Files : analyze_file(f)
    \/ \E c \in Codes, t \in Tiers : convert_to_graph(c, t)
    \/ \E c \in Codes : convert_auth(c)
    \/ \E n \in {"ExchangeService.FindItems"} : get_roadmap(n)
    \/ \E f \in Files : add_allowed_path(f)
    \/ \E f \in Paths : migration_readiness(f)
    \/ send_write
    \/ send_readline
    \/ \E p \in DOMAIN procs : child_answer(p)

\* A client used through start() and its wrappers, with children that
\* answer every request in one of the ways of Answers.
WrapperSpec == Init /\ [][WrapperNext]_vars

\* ------------------------------------------------------------ main()
\* The arguments main() passes to the wrappers (lines 188-221; the texts
\* are shortened).
SampleCode == "service.FindItems(...)"
SampleRoadmap == "ExchangeService.FindItems"

\* main(), lines 167-176: the build of the server; when it fails main()
\* exits before a client exists, otherwise the client is constructed.
main_build ==
    /\ caller.main = "none"
    /\ op = "none"
    /\ \E built \in BOOLEAN :
          caller' = [caller EXCEPT !.main = IF built THEN "start"
                                            ELSE "exited"]
    /\ UNCHANGED <<process, request_id, procs, pc, op, req, outcome, written,
                   log, resolved, unwritten, config>>

\* main(), line 177: client.start(), before the try block.
main_start ==
    /\ caller.main = "start"
    /\ start

\* main(), line 177: the Popen of start() raises; main() ends with it.
main_start_spawn_fails ==
    /\ caller.main = "start"
    /\ pc = "idle"
    /\ op' = "start"
    /\ outcome' = Raised("start", "FileNotFoundError", process)
    /\ caller' = [caller EXCEPT !.main = "failed"]
    /\ UNCHANGED <<process, request_id, procs, pc, req, written, log,
                   resolved, unwritten, config>>

\* main(), line 182: client.list_tools().
main_list_tools ==
    /\ caller.main = "list_tools"
    /\ ListTools
    /\ UNCHANGED caller

\* main(), line 196: client.analyze_code(ews_code).
main_analyze_code ==
    /\ caller.main = "analyze_code"
    /\ ToolsCall("analyze_code", AnalyzeCodeParams(SampleCode))
    /\ UNCHANGED caller

\* main(), lines 202-204: client.convert_to_graph(code), tier left None.
main_convert_to_graph ==
    /\ caller.main = "convert_to_graph"
    /\ ToolsCall("convert_to_graph", ConvertToGraphParams(SampleCode, "None"))
    /\ UNCHANGED caller

\* main(), lines 210-213: client.convert_auth(code, "clientCredential").
main_convert_auth ==
    /\ caller.main = "convert_auth"
    /\ ToolsCall("convert_auth", ConvertAuthParams(SampleCode))
    /\ UNCHANGED caller

\* main(), lines 219-221: client.get_roadmap(name).
main_get_roadmap ==
    /\ caller.main = "get_roadmap"
    /\ ToolsCall("get_roadmap", GetRoadmapParams(SampleRoadmap))
    /\ UNCHANGED caller

\* main(), lines 225-226: the finally clause calls client.stop().
main_finally ==
    /\ caller.main = "finally"
    /\ pc = "idle"
    /\ op' = "stop"
    /\ IF StopGuard
       THEN /\ SendEntry("shutdown")
            /\ UNCHANGED <<process, procs, outcome, written, log, resolved,
                           unwritten, caller, config>>
       ELSE /\ outcome' = Returned("stop", NoValue, process)
            /\ caller' = [caller EXCEPT !.main = IF caller.pending
                                                 THEN "failed" ELSE "done"]
            /\ UNCHANGED <<process, request_id, procs, pc, req, written,
                           log, resolved, unwritten, config>>

MainNext ==
    \/ main_build
    \/ main_start
    \/ main_start_spawn_fails
    \/ main_list_tools
    \/ main_analyze_code
    \/ main_convert_to_graph
    \/ main_convert_auth
    \/ main_get_roadmap
    \/ main_finally
    \/ send_write
    \/ send_readline
    \/ \E p \in DOMAIN procs : child_answer(p)
    \/ \E p \in DOMAIN procs : child_exit(p)

\* One run of main() against a server that answers in any of the ways of
\* Answers, or exits.
MainSpec == Init /\ [][MainNext]_vars

\* ------------------------------------------------- get_config
\* The paths a caller passes, and what the file system holds at a path:
\* nothing, a file with a JSON object, a file with text that is not JSON, or
\* a directory.
ConfigPaths == {"./appsettings.local.json", "./appsettings.json"}
FileKinds == {"absent", "json", "text", "dir"}

\* The JSON document in the file at path, when it holds one: every file has
\* its own content.
Content(path) == JsonDumps(PyDict(<< <<"path", PyStr(path)>> >>))

\* os.path.exists for a client that only accepts regular files.
PathExistsIsFile(fs, path) == fs[path] \in {"json", "text"}

\* os.path.exists(path): true for a file and for a directory.
PathExists(fs, path) == fs[path] # "absent"

\* with open(path) as f: json.load(f), lines 15-16 and 19-20: what it raises
\* ("none" when it returns) and the value it returns.
LoadFile(fs, path) ==
    CASE fs[path] = "absent" -> [exc |-> "FileNotFoundError", value |-> PyNone]
      [] fs[path] = "dir"    -> [exc |-> "IsADirectoryError", value |-> PyNone]
      [] fs[path] = "text"   -> [exc |-> "JSONDecodeError", value |-> PyNone]
      [] OTHER -> [exc |-> "none", value |-> JsonParse(Content(path))]

\* No call of get_config has been made on the file system fs.
ConfigIdle(fs) ==
    [stage |-> "none", fs |-> fs, local_config_path |-> "",
     default_config_path |-> "", opened |-> <<>>, status |-> "none",
     exc |-> "none", app_settings |-> PyNone]

ConfigInit ==
    /\ process = None
    /\ request_id = 0
    /\ procs = <<>>
    /\ pc = "idle"
    /\ op = "none"
    /\ req = NoRequest
    /\ outcome = [op |-> "none", status |-> "none", exc |-> "none",
                  value |-> NoValue, proc |-> None]
    /\ written = <<>>
    /\ log = <<>>
    /\ resolved = 0
    /\ unwritten = 0
    /\ caller = NoCaller
    /\ \E fs \in [ConfigPaths -> FileKinds] : config = ConfigIdle(fs)

\* get_config ends by opening path and loading its content.
ConfigLoad(path) ==
    LET r == LoadFile(config.fs, path)
    IN  config' = [config EXCEPT
            !.stage = "done",
            !.opened = Append(@, path),
            !.status = IF r.exc = "none" THEN "returned" ELSE "raised",
            !.exc = r.exc,
            !.app_settings = r.value]

\* A caller invokes get_config(local_config_path, default_config_path).
get_config(local, default) ==
    /\ config.stage \in {"none", "done"}
    /\ config' = [ConfigIdle(config.fs) EXCEPT
                     !.stage = "local",
                     !.local_config_path = local,
                     !.default_config_path = default]
    /\ UNCHANGED <<process, request_id, procs, pc, op, req, outcome, written,
                   log, resolved, unwritten, caller>>

\* Lines 13-16: the local path exists, it is opened and loaded.
config_local ==
    /\ config.stage = "local"
    /\ IF PathExists(config.fs, config.local_config_path)
       THEN ConfigLoad(config.local_config_path)
       ELSE config' = [config EXCEPT !.stage = "default"]
    /\ UNCHANGED <<process, request_id, procs, pc, op, req, outcome, written,
                   log, resolved, unwritten, caller>>

\* Lines 17-23: otherwise the default path is opened and loaded when it
\* exists, and None is returned when it does not.
config_default ==
    /\ config.stage = "default"
    /\ IF PathExists(config.fs, config.default_config_path)
       THEN ConfigLoad(config.default_config_path)
       ELSE config' = [config EXCEPT !.stage = "done",
                                     !.status = "returned",
                                     !.app_settings = PyNone]
    /\ UNCHANGED <<process, request_id, procs, pc, op, req, outcome, written,
                   log, resolved, unwritten, caller>>

ConfigNext ==
    \/ \E l, d \in ConfigPaths : get_config(l, d)
    \/ config_local
    \/ config_default

\* Calls of get_config on any content of the two paths.
ConfigSpec == ConfigInit /\ [][ConfigNext]_vars

\* ------------------------------------------------- the echoing child
\* The values a caller passes as params: atoms (a string, integers, a
\* boolean, floats, None), lists and tuples, a set, containers that hold
\* themselves, and dicts with keys of several types.
PyInt(text) == Py("int", text, <<>>)
PyAtoms ==
    {PyStr("a"), PyInt("1"), PyInt("huge"), PyNone,
     Py("bool", "True", <<>>), Py("float", "1.5", <<>>),
     Py("float", "nan", <<>>), DecoderNaN}
PySeqs == {<<>>, <<PyInt("1")>>}
PyKeys ==
    {PyStr("k"), PyInt("1"), PyInt("huge"), Py("bool", "True", <<>>),
     Py("float", "nan", <<>>), PyNone, Py("tuple", "", <<>>)}
Cycle == Py("cycle", "", <<>>)
PyFlat ==
    PyAtoms
    \cup {Py(t, "", items) : t \in {"list", "tuple"}, items \in PySeqs}
    \cup {Py("set", "", <<>>),
          Py("list", "", <<Py("float", "nan", <<>>)>>),
          Py("list", "", <<DecoderNaN>>),
          Py("tuple", "", <<DecoderNaN>>),
          Py("list", "", <<Cycle>>)}
PyItem(k, v) == Py("item", "", <<k, v>>)
PyDicts ==
    {Py("dict", "", <<>>)}
    \cup {Py("dict", "", <<PyItem(k, v)>>) :
             k \in PyKeys,
             v \in {PyStr("a"), Py("list", "", <<PyInt("1")>>)}}
    \cup {Py("dict", "", <<PyItem(PyStr("k"), Cycle)>>),
          Py("dict", "", <<PyItem(PyStr("k"), DecoderNaN)>>),
          Py("dict", "", <<PyItem(PyInt("huge"), Py("set", "", <<>>))>>),
          Py("dict", "", <<PyItem(PyInt("1"), PyStr("a")),
                           PyItem(PyStr("1"), PyStr("b"))>>),
          Py("dict", "", <<PyItem(PyStr("a"), Py("set", "", <<>>)),
                           PyItem(PyStr("b"), Cycle)>>),
          Py("dict", "", <<PyItem(PyStr("a"), Cycle),
                           PyItem(PyStr("b"), Py("set", "", <<>>))>>)}
Arguments == PyFlat \cup PyDicts

\* A caller invokes _send(method, params) with any params.  When
\* json.dumps (line 79) raises on a value it cannot encode, the id has been
\* incremented (line 72) and nothing is written.
call_with(method, params) ==
    /\ pc = "idle"
    /\ request_id < MaxId
    /\ op' = "_send"
    /\ IF JsonSerializable(params)
       THEN /\ SendEntryWith(method, params)
            /\ UNCHANGED <<outcome, log, unwritten>>
       ELSE /\ request_id' = request_id + 1
            /\ req' = [jsonrpc |-> "2.0", id |-> request_id + 1,
                       method |-> method, params |-> params]
            /\ outcome' = Raised("_send", JsonDumpsRaises(params), process)
            /\ log' = Logged([op |-> "_send", proc |-> process,
                              wrote |-> FALSE,
                              exc |-> JsonDumpsRaises(params),
                              line |-> NoLine])
            /\ unwritten' = unwritten + 1
            /\ UNCHANGED pc
    /\ UNCHANGED <<process, procs, written, resolved, caller, config>>

\* The line a stub child writes in answer to the request line r: the
\* request's id and, as result, the params it received.
Echo(r) ==
    [valid |-> TRUE, id |-> r.id, shape |-> "result", nl |-> TRUE,
     body |-> r.body]

\* Child p reads one request line and echoes it.
child_echo(p) ==
    /\ procs[p].alive
    /\ procs[p].stdin # <<>>
    /\ procs' = [procs EXCEPT ![p].stdin = Tail(@),
                              ![p].stdout = Append(@, Echo(Head(procs[p].stdin)))]
    /\ UNCHANGED <<process, request_id, pc, op, req, outcome, written,
                   log, resolved, unwritten, caller, config>>

RoundTripNext ==
    \/ start
    \/ \E m \in Methods, a \in Arguments : call_with(m, a)
    \/ send_write
    \/ send_readline
    \/ \E p \in DOMAIN procs : child_echo(p)

\* A client whose children echo the params of every request as its result.
RoundTripSpec == Init /\ [][RoundTripNext]_vars

\* ================================================================ claims

\* The ids of the requests written so far are strictly increasing.
WrittenIdsIncrease ==
    \A i, j \in DOMAIN written : i < j => written[i].id < written[j].id

\* C1 as stated: the ids of the requests written to the child are strictly
\* increasing and the first written request has id 1.
C1_FirstWrittenIdIsOne ==
    /\ WrittenIdsIncrease
    /\ written # <<>> => written[1].id = 1

\* C1 amended: the ids of the written requests are strictly increasing
\* positive integers, and the i-th written request carries the id i plus the
\* number of earlier _send calls that ended before writing; so the first
\* written id is 1 exactly when no earlier _send failed before its write.
C1_WrittenIdsCountSends ==
    /\ WrittenIdsIncrease
    /\ \A i \in DOMAIN written :
          /\ written[i].id = i + written[i].skipped
          /\ written[i].id >= 1

\* Two requests written, the first after a _send that wrote nothing.
C1_Witness ==
    /\ Len(written) >= 2
    /\ written[1].skipped > 0

\* A _send called directly returns a response to its caller in this step
\* (start, stop and the wrappers keep the response of their _send).
SendReturns ==
    /\ pc = "read"
    /\ pc' = "idle"
    /\ op = "_send"
    /\ outcome'.status = "returned"

\* C2 as stated: every response that _send returns carries the id of the
\* request that this _send wrote.
C2_ResponseIdIsRequestId ==
    (pc = "idle" /\ op = "_send" /\ outcome.op = op
        /\ outcome.status = "returned")
    => outcome.value.id = req.id

\* C2 amended: the response that _send returns is the decoding of the one
\* line this _send read, the oldest unread line of the child's output; no
\* id is compared, so the response carries the request's id exactly when
\* the line the child wrote carries it.
C2_ResponseIsDecodedLine ==
    [][SendReturns =>
        LET line == Head(procs[process].stdout)
        IN  /\ outcome'.value.id = line.id
            /\ outcome'.value.shape = line.shape
            /\ procs'[process].stdout = Tail(procs[process].stdout)
            /\ (outcome'.value.id = req.id) <=> (line.id = req.id)]_vars

\* A _send other than the first returned a response with its request's id.
C2_Witness ==
    /\ pc = "idle"
    /\ op = "_send"
    /\ outcome.op = "_send"
    /\ outcome.status = "returned"
    /\ req.id > 1
    /\ outcome.value.id = req.id

\* C3: at most one request is in flight: a written request is unresolved
\* only while its own _send waits in readline, so every write happens when
\* all earlier written requests have ended with a line read or a failure.
C3_SingleInFlight ==
    /\ InFlight \in {0, 1}
    /\ InFlight = 1 <=> pc = "read"

\* A second request is in flight after the first one was resolved.
C3_Witness ==
    /\ Len(written) >= 2
    /\ InFlight = 1
    /\ resolved >= 1

\* stop() is invoked in this step on a client without a process handle.
StopWithoutHandle ==
    /\ pc = "idle"
    /\ process = None
    /\ op' = "stop"
    /\ outcome' # outcome \/ op # "stop" \/ pc' # "idle"

\* C4: stop() without a handle (never started, or already stopped) raises
\* nothing, starts no shutdown request, requests no termination and leaves
\* the id counter and the handle as they are.
C4_StopIdempotent ==
    [][StopWithoutHandle =>
        /\ outcome' = Returned("stop", NoValue, None)
        /\ pc' = "idle"
        /\ UNCHANGED <<process, request_id, req, procs, written>>]_vars

\* A second stop() has returned on a client that was started and stopped.
C4_Witness ==
    /\ procs # <<>>
    /\ procs[1].terminated
    /\ process = None
    /\ pc = "idle"
    /\ outcome = Returned("stop", NoValue, None)

\* The shutdown _send of a stop() fails in this step.
ShutdownSendFails ==
    /\ op = "stop"
    /\ pc' = "idle"
    /\ \/ pc = "write" /\ ~procs[process].alive
       \/ /\ pc = "read"
          /\ \/ procs[process].stdout = <<>>
             \/ ~Head(procs[process].stdout).valid

\* C5: when the shutdown send of stop() fails (broken pipe, end of stream
\* or undecodable reply) stop() does not raise, requests termination of
\* the process and clears the handle.
C5_StopDiscardsSendFailure ==
    [][ShutdownSendFails =>
        /\ outcome' = Returned("stop", NoValue, process)
        /\ procs'[process].terminated
        /\ process' = None]_vars

\* stop() returned after its shutdown send met an end of stream.
C5_Witness ==
    /\ pc = "idle"
    /\ outcome.op = "stop"
    /\ outcome.status = "returned"
    /\ outcome.proc # None
    /\ log # <<>>
    /\ log[Len(log)].op = "stop"
    /\ log[Len(log)].exc = "RuntimeError"
    /\ procs[outcome.proc].terminated
    /\ process = None

\* A stop() on a started client has begun and not yet returned.
StopPending == op = "stop" /\ pc # "idle"

\* The latest stop() returned, having requested termination of the child
\* it found and cleared the handle.
StopDone ==
    /\ pc = "idle"
    /\ op = "stop"
    /\ outcome.op = "stop"
    /\ outcome.status = "returned"
    /\ outcome.proc # None
    /\ procs[outcome.proc].terminated
    /\ process = None

\* The client waits in readline on a live child that has written nothing.
BlockedInReadline == pc = "read" /\ ~ReadReady

\* C6 as stated: every stop() invoked on a started client eventually
\* requests termination of the child and clears the handle, whatever the
\* child does.
C6_StopAlwaysTerminates == StopPending ~> StopDone

\* C6 amended: a stop() invoked on a started client requests termination
\* and clears the handle as soon as its shutdown send ends, which it does
\* once the child has written a line or exited; as long as a live child has
\* written nothing, stop() stays in readline with the handle still set and
\* no termination requested.
C6_StopTerminatesUnlessBlocked ==
    /\ StopPending ~> (StopDone \/ BlockedInReadline)
    /\ (StopPending /\ pc = "read" /\ ReadReady) ~> StopDone
    /\ [](StopPending /\ BlockedInReadline =>
            process # None /\ ~procs[process].terminated)

\* stop() returned after the child had answered the shutdown request.
C6_Witness ==
    /\ StopDone
    /\ log # <<>>
    /\ log[Len(log)].op = "stop"
    /\ log[Len(log)].proc = outcome.proc
    /\ log[Len(log)].exc = "none"

\* The exception classes of a transport failure: an I/O error of the
\* operating system, or the end-of-stream error of _send.
IsTransportFailure(exc) == IsInstance(exc, "OSError") \/ exc = "RuntimeError"

\* C7: after stop() has completed, a further _send on that client fails
\* with an I/O (transport) error and writes no request.
C7_CallAfterStopIsTransportError ==
    (pc = "idle" /\ op = "_send" /\ outcome.op = "_send"
        /\ outcome.proc = None /\ procs # <<>>)
    => /\ outcome.status = "raised"
       /\ IsTransportFailure(outcome.exc)
       /\ ~log[Len(log)].wrote

\* A _send ends in this step on a child that has exited without leaving a
\* complete response line: before the write, without a reply, or in the
\* middle of its reply.
SendEndsOnExitedChild ==
    /\ op = "_send"
    /\ pc \in {"write", "read"}
    /\ pc' = "idle"
    /\ process # None
    /\ ~procs[process].alive
    /\ \/ pc = "write"
       \/ procs[process].stdout = <<>>
       \/ ~Head(procs[process].stdout).nl

\* C8: when the child exits before a _send completes, that _send fails with
\* the transport-failure kind, not with the decode-failure kind.
C8_ChildExitIsTransportFailure ==
    [][SendEndsOnExitedChild =>
        /\ outcome'.status = "raised"
        /\ IsTransportFailure(outcome'.exc)]_vars

\* Two exception classes are of one kind when they share a class other
\* than the roots that every error derives from.
SameKind(e1, e2) ==
    (Mro(e1) \cap Mro(e2)) \ {"Exception", "BaseException"} # {}

\* How a logged _send failed, when its exception went to the caller (the
\* one of stop() does not).
Reported(e) == e.op # "stop" /\ e.exc # "none"
WriteFailed(e) == Reported(e) /\ ~e.wrote /\ e.proc # None
ReadHitEnd(e) == Reported(e) /\ e.wrote /\ e.line = NoLine
DecodeFailed(e) == Reported(e) /\ e.wrote /\ e.line # NoLine

\* C9: a write failure and an end-of-stream read failure reach the caller
\* as one and the same kind of error, which is not the kind of a malformed
\* response line.
C9_OneTransportKind ==
    \A i, j \in DOMAIN log :
        /\ (WriteFailed(log[i]) /\ ReadHitEnd(log[j]))
              => SameKind(log[i].exc, log[j].exc)
        /\ ((WriteFailed(log[i]) \/ ReadHitEnd(log[i])) /\ DecodeFailed(log[j]))
              => ~SameKind(log[i].exc, log[j].exc)

\* The readline of a plain _send ends in this step.
ReadEnds == op = "_send" /\ pc = "read" /\ pc' = "idle"

\* C10: a response line that is not JSON makes the _send fail with the
\* decode failure, having consumed that line and nothing else; the handle
\* and the child are untouched, so the next _send writes its request, and
\* when the line it reads is well formed it returns that line's response.
C10_DecodeFailureKeepsChannel ==
    [][/\ (ReadEnds /\ procs[process].stdout # <<>>
              /\ ~Head(procs[process].stdout).valid)
          => /\ outcome' = Raised("_send", "JSONDecodeError", process)
             /\ procs' = [procs EXCEPT ![process].stdout = Tail(@)]
             /\ process' = process
       /\ (log # <<>> /\ log[Len(log)].exc = "JSONDecodeError"
              /\ op = "_send" /\ process = log[Len(log)].proc)
          => /\ (pc = "write" /\ pc' # "write" /\ procs[process].alive)
                => /\ pc' = "read"
                   /\ procs'[process].stdin =
                          Append(procs[process].stdin, JsonDumpsLine(req))
             /\ (ReadEnds /\ procs[process].stdout # <<>>
                    /\ Head(procs[process].stdout).valid)
                => /\ outcome' = Returned("_send",
                          JsonLoads(Head(procs[process].stdout)), process)
                   /\ procs' = [procs EXCEPT ![process].stdout = Tail(@)]
      ]_vars

\* A _send failed to decode its line and the next _send on the same child
\* returned the response of the line it read.
C10_Witness ==
    /\ pc = "idle"
    /\ Len(log) = 2
    /\ log[1].op = "_send" /\ log[1].exc = "JSONDecodeError" /\ log[1].line.nl
    /\ log[2].op = "_send" /\ log[2].exc = "none"
    /\ log[2].proc = log[1].proc
    /\ outcome = Returned("_send", JsonLoads(log[2].line), log[2].proc)

\* The record of the latest _send that ended.
LastSend == log[Len(log)]

\* The operation that ended last called _send, so the latest record of the
\* log is the record of its (last) _send: a start whose Popen raised (line
\* 46) and a stop without a handle (line 62) end without a _send.
LastSendIsOfOp ==
    /\ pc = "idle"
    /\ outcome.op = op
    /\ log # <<>>
    /\ LastSend.op = op
    /\ ~(op = "start" /\ outcome.exc = "FileNotFoundError")
    /\ ~(op = "stop" /\ outcome.proc = None)

\* The latest _send read a response object that carries an error member
\* instead of a result, and the operation it belonged to has ended.
EndedOnErrorResponse ==
    /\ LastSendIsOfOp
    /\ LastSend.line.valid
    /\ LastSend.line.shape = "error"

\* C11: a response that carries an error object instead of a result never
\* makes the operation raise: _send returns the whole response object (with
\* its error shape and its id), every tools/call wrapper returns the empty
\* dict, and list_tools returns the empty list.
C11_ErrorResponseIsData ==
    EndedOnErrorResponse =>
        /\ outcome.op = op
        /\ outcome.status = "returned"
        /\ op = "_send" => outcome.value = JsonLoads(LastSend.line)
        /\ op \in ToolWrappers => outcome.value.body = EmptyParams
        /\ op = "list_tools" => outcome.value.body = Py("list", "", <<>>)

\* A wrapper returned after the server answered its request with an error.
C11_Witness ==
    /\ EndedOnErrorResponse
    /\ op = "analyze_code"
    /\ outcome.status = "returned"
    /\ outcome.value.body = EmptyParams

\* The i-th written request is the first one written to its child.
FirstToChild(i) ==
    \A j \in 1..(i - 1) : written[j].proc # written[i].proc

\* C12: for every spawned child, the first request written to it is
\* initialize with the empty parameter object, and any later request to
\* that child is written only after the _send of initialize has read its
\* reply line.
C12_InitializeFirst ==
    \A i \in DOMAIN written :
        /\ FirstToChild(i) =>
              /\ written[i].method = "initialize"
              /\ written[i].params = EmptyParams
        /\ \A j \in DOMAIN written :
              (i < j /\ FirstToChild(i) /\ written[j].proc = written[i].proc)
              => written[i].lines = 1

\* A second child has received initialize and then another request.
C12_Witness ==
    \E i, j \in DOMAIN written :
        /\ i < j
        /\ written[i].proc = 2
        /\ written[j].proc = 2
        /\ written[i].method = "initialize"
        /\ written[j].method = "tools/list"

\* The j-th written request is the getMigrationReadiness request of a
\* migration_readiness(root), and the request written just before it is the
\* addAllowedPath request for the same root, sent to the same child with the
\* preceding id, whose reply line has been read.
PrecededByAllowedPath(j) ==
    /\ j > 1
    /\ \E root \in Paths :
          /\ written[j].params = ReadinessParams(root)
          /\ written[j - 1].params = AllowedPathParams(root)
    /\ written[j - 1].proc = written[j].proc
    /\ written[j - 1].id + 1 = written[j].id
    /\ written[j - 1].lines = 1

\* migration_readiness has ended in its add_allowed_path.
EndedInAllowedPath ==
    /\ pc = "idle"
    /\ op = "migration_readiness"
    /\ outcome.op = op
    /\ ToolName(req) = "addAllowedPath"

\* C13: every getMigrationReadiness request is written right after the
\* addAllowedPath request for the same root, once the reply to that one has
\* been read, and carries the next request id; a migration_readiness whose
\* add_allowed_path did not return has raised and has written no request
\* after the addAllowedPath one.
C13_AllowedPathFirst ==
    /\ \A j \in DOMAIN written :
          ToolName(written[j]) = "getMigrationReadiness"
          => PrecededByAllowedPath(j)
    /\ EndedInAllowedPath =>
          /\ outcome.status = "raised"
          /\ \A j \in DOMAIN written : written[j].id <= req.id
          /\ \A j \in DOMAIN written :
                ToolName(written[j]) = "getMigrationReadiness"
                => written[j].id < req.id

\* migration_readiness of a relative root returned after both requests.
C13_Witness ==
    /\ pc = "idle"
    /\ op = "migration_readiness"
    /\ outcome.op = op
    /\ outcome.status = "returned"
    /\ written[Len(written)].params = ReadinessParams("proj")
    /\ written[Len(written)].id = 3

\* get_config has ended.
ConfigDone == config.stage = "done"

\* get_config returned the parsed content of the file at path.
ReturnedContentOf(path) ==
    /\ config.status = "returned"
    /\ config.app_settings = JsonParse(Content(path))

\* C14 as stated: when the primary file exists its parsed content is
\* returned and the fallback is never opened; when only the fallback exists
\* its parsed content is returned; when neither exists None is returned
\* and no exception escapes.
C14_ExistingFileIsReturned ==
    ConfigDone =>
        LET local == config.local_config_path
            default == config.default_config_path
            fs == config.fs
        IN  /\ fs[local] # "absent" =>
                  /\ ReturnedContentOf(local)
                  /\ config.opened = <<local>>
            /\ (fs[local] = "absent" /\ fs[default] # "absent") =>
                  ReturnedContentOf(default)
            /\ (fs[local] = "absent" /\ fs[default] = "absent") =>
                  /\ config.status = "returned"
                  /\ config.app_settings = PyNone

\* C14 amended: when the primary path exists it is the only path opened,
\* and get_config returns its parsed content if it is a file holding JSON
\* and lets the exception of open or json.load escape otherwise; when only
\* the fallback exists the same holds for the fallback; when neither exists
\* nothing is opened, None is returned and no exception escapes.
C14_FirstExistingIsLoaded ==
    ConfigDone =>
        LET local == config.local_config_path
            default == config.default_config_path
            fs == config.fs
            loaded(path) ==
                /\ config.opened = <<path>>
                /\ fs[path] = "json" => ReturnedContentOf(path)
                /\ fs[path] # "json" =>
                      /\ config.status = "raised"
                      /\ config.exc = IF fs[path] = "dir"
                                      THEN "IsADirectoryError"
                                      ELSE "JSONDecodeError"
        IN  /\ fs[local] # "absent" => loaded(local)
            /\ (fs[local] = "absent" /\ fs[default] # "absent") =>
                  loaded(default)
            /\ (fs[local] = "absent" /\ fs[default] = "absent") =>
                  /\ config.opened = <<>>
                  /\ config.status = "returned"
                  /\ config.exc = "none"
                  /\ config.app_settings = PyNone

\* Both files hold JSON, and the content of the primary one was returned.
C14_Witness ==
    /\ ConfigDone
    /\ config.local_config_path # config.default_config_path
    /\ config.fs[config.local_config_path] = "json"
    /\ config.fs[config.default_config_path] = "json"
    /\ ReturnedContentOf(config.local_config_path)
    /\ ~ReturnedContentOf(config.default_config_path)

\* _send has returned the response to the request req.
SendReturned ==
    /\ pc = "idle"
    /\ op = "_send"
    /\ outcome.op = "_send"
    /\ outcome.status = "returned"

\* C15 as stated: for every arguments structure that the child echoes as
\* result, the returned response has the request's id and a result equal
\* to the arguments that were sent.
C15_RoundTripAny ==
    SendReturned =>
        /\ outcome.value.id = req.id
        /\ PyEquals(outcome.value.body, req.params)

\* v is built of the values that JSON text gives back as they were: str,
\* int, bool, float other than nan, None, lists, and dicts whose keys are
\* strings.
RECURSIVE JsonNative(_)
JsonNative(v) ==
    /\ v.t \in {"str", "int", "bool", "float", "none", "list", "dict",
                "item", "cycle"}
    /\ ~IsNaN(v)
    /\ v.t = "item" => v.items[1].t = "str"
    /\ \A i \in DOMAIN v.items : JsonNative(v.items[i])

\* _send has ended on the request req.
SendEnded == pc = "idle" /\ op = "_send" /\ outcome.op = "_send"

\* C15 amended: for arguments that json.dumps accepts, the echoed result
\* is what json.loads makes of their JSON text (tuples come back as lists,
\* keys that are not strings as strings, of keys that collide the last
\* value, a nan as the decoder's nan), and it equals the arguments
\* whenever they are built of str, int, bool, float other than nan, None,
\* lists and dicts with string keys; for arguments that json.dumps rejects, _send
\* raises the exception of json.dumps (TypeError or ValueError) with no
\* request written, and _send raises these two only then.
C15_RoundTripJsonNative ==
    /\ SendReturned =>
          /\ outcome.value.id = req.id
          /\ JsonSerializable(req.params)
          /\ outcome.value.body = JsonParse(JsonDumps(req.params))
          /\ JsonNative(req.params)
                => PyEquals(outcome.value.body, req.params)
    /\ SendEnded =>
          /\ ~JsonSerializable(req.params) =>
                /\ outcome.status = "raised"
                /\ outcome.exc = JsonDumpsRaises(req.params)
                /\ \A i \in DOMAIN written : written[i].id # req.id
          /\ outcome.exc \in {"TypeError", "ValueError"} =>
                outcome.exc = JsonDumpsRaises(req.params)

\* A dict holding a list came back equal to what was sent, after a _send
\* of a dict that holds itself had raised ValueError.
C15_Witness ==
    /\ SendReturned
    /\ req.params.t = "dict"
    /\ req.params.items # <<>>
    /\ req.params.items[1].items[2].t = "list"
    /\ JsonNative(req.params)
    /\ PyEquals(outcome.value.body, req.params)
    /\ \E i \in DOMAIN log : log[i].exc = "ValueError"

\* The i-th written request belongs to a _send that has ended.
Ended(i) == i <= resolved

\* C16 as stated: every _send whose write succeeded has read exactly one
\* line when it ends, so the n-th line read belongs to the n-th written
\* request.
C16_OneLinePerWrittenRequest ==
    \A i \in DOMAIN written : Ended(i) => written[i].lines = 1

\* The readline of a _send returns in this step.
ReadlineReturns == pc = "read" /\ pc' # "read"

\* The write of a _send fails in this step.
WriteFails == pc = "write" /\ pc' = "idle"

\* The readline that returns in this step hands the oldest unread line of
\* the child to its _send and removes it from the stream, or finds the
\* output ended and hands over nothing.
ReadlineTakesOldestLine ==
    LET out == procs[process].stdout
        entry == log'[Len(log')]
    IN  /\ entry.wrote
        /\ out = <<>> => entry.line = NoLine
        /\ out # <<>> => entry.line = Head(out)
        /\ (out # <<>> /\ process' = process)
              => procs'[process].stdout = Tail(out)

\* The _send whose write fails in this step has written nothing and read
\* nothing.
FailedWriteReadsNothing ==
    /\ written' = written
    /\ ~log'[Len(log')].wrote
    /\ log'[Len(log')].line = NoLine

\* Every ended written request has read one line, or none because its
\* child's output had ended; for each child the requests written before
\* the latest one have each read their line.
LinesFollowRequests ==
    \A i \in DOMAIN written :
        /\ written[i].lines \in {0, 1}
        /\ ~Ended(i) => written[i].lines = 0
        /\ (Ended(i) /\ written[i].lines = 0) => ~procs[written[i].proc].alive
        /\ \A j \in DOMAIN written :
              (i < j /\ written[i].proc = written[j].proc)
              => written[i].lines = 1

\* C16 amended: a _send whose write succeeded calls readline once and
\* reads at most one line: exactly one (the oldest unread line of its
\* child) unless the child's output has ended, and then none; a _send whose
\* write failed reads none and writes nothing; so the lines read never
\* outnumber the requests written, and for each child the n-th line read
\* from it is handed to the n-th request written to it.
C16_OneLineUnlessEndOfStream ==
    /\ []LinesFollowRequests
    /\ [][(ReadlineReturns => ReadlineTakesOldestLine)
          /\ (WriteFails => FailedWriteReadsNothing)]_vars

\* A request written to a first child met the end of its output, and the
\* first line read was handed to a request written to a second child.
C16_Witness ==
    \E i, j \in DOMAIN written :
        /\ i < j
        /\ Ended(j)
        /\ written[i].lines = 0
        /\ written[j].lines = 1
        /\ written[i].proc # written[j].proc

\* C17 as stated: every child the client spawned and no longer references
\* has had its termination requested, or at least is no longer running:
\* no spawned child runs without a handle.
C17_NoRunningOrphan ==
    \A p \in DOMAIN procs :
        p # process => (procs[p].terminated \/ ~procs[p].alive)

\* A call of _send begins in this step: its request is built.
SendBegins == req' # req

\* The ids of the requests written so far are pairwise distinct.
WrittenIdsDistinct ==
    \A i, j \in DOMAIN written : i # j => written[i].id # written[j].id

\* C19 as stated: the id counter never decreases, a call of _send adds
\* exactly 1 to it, no step of stop() changes it, and the written ids are
\* pairwise distinct.
C19_StopLeavesCounter ==
    /\ []WrittenIdsDistinct
    /\ [][/\ request_id' >= request_id
          /\ SendBegins => request_id' = request_id + 1
          /\ op' = "stop" => request_id' = request_id]_vars

\* C19 amended: the id counter never decreases; it changes only when a
\* call of _send begins (also one that will fail before writing, and also
\* the shutdown _send that stop makes when it holds a handle), and then by
\* exactly 1, the new value being the id of the request; the terminate and
\* clear of stop and the spawn of start leave it alone; so the ids of the
\* requests ever written by the instance are pairwise distinct, also
\* across a restart.
C19_CounterOnlyCountsSends ==
    /\ []WrittenIdsDistinct
    /\ [][/\ request_id' >= request_id
          /\ SendBegins <=> request_id' = request_id + 1
          /\ ~SendBegins => request_id' = request_id
          /\ SendBegins => req'.id = request_id']_vars

\* Requests were written to two children, the first of which was stopped,
\* after a _send that failed before writing.
C19_Witness ==
    \E i, j \in DOMAIN written :
        /\ i < j
        /\ written[i].proc # written[j].proc
        /\ procs[written[i].proc].terminated
        /\ written[j].skipped > 0

\* start has ended after its _send read a line that parses as JSON.
StartEndedOnJson ==
    /\ op = "start"
    /\ LastSendIsOfOp
    /\ LastSend.line.valid

\* C20 as stated: start returns normally, with the handle set, whenever the
\* reply line to initialize parses as a JSON object, whatever its members.
C20_StartReturnsOnAnyObject ==
    (StartEndedOnJson /\ LastSend.line.shape # "nonobject") =>
        /\ outcome.status = "returned"
        /\ process # None

\* main() has ended: it returned, or an exception left it.
MainEnded == caller.main \in {"done", "failed"}

\* C18 as stated: on every exit path of main() after start() has spawned
\* the child, stop() has run: once main() has ended, termination has been
\* requested for every child it spawned that has not exited by itself, also
\* when the initialize handshake inside start() failed.
C18_StopOnEveryExitPath ==
    MainEnded =>
        \A p \in DOMAIN procs : procs[p].terminated \/ ~procs[p].alive

====
